---- MODULE Spec2Model ----
(***************************************************************************)
(* The Event Relay Controller of hot-diagnose's browser page               *)
(* (server/templates/control.js): a WebSocket whose inbound messages are   *)
(* parsed and pushed on a queue, a setInterval timer whose callback takes  *)
(* one element off the queue and blinks the matching line, and the         *)
(* START/PAUSE and STOP buttons that drive do_start, do_pause and do_stop. *)
(* The browser is single threaded: every handler runs to completion, so    *)
(* each handler is one action.                                             *)
(***************************************************************************)
EXTENDS Integers, Sequences, FiniteSets, TLC

\* Bounds of the model.
MaxMsgs == 3      \* inbound messages per session
MaxSent == 2      \* commands transmitted per session
MaxTimers == 2    \* interval timers alive at once

\* Class names for which the page holds an element.
ClassNames == {"a", "b"}

\* What JavaScript yields for a missing property, as a class name.
Undefined == "undefined"

\* message.data as a sequence of tokens: an event record, an object without
\* a classname, and a truncated record.
EventPayload(c) == <<"{", "classname", ":", c, "}">>
EmptyObject == <<"{", "}">>
Truncated == <<"{", "classname", ":">>
Payloads == {EventPayload(c) : c \in ClassNames} \cup {EmptyObject, Truncated}

VARIABLES
    queue,            \* this.queue
    wsState,          \* this.ws.readyState ("FAILED": closed without ever
                      \* having been open)
    timmer,           \* this.timmer (0: undefined)
    timers,           \* interval timers the browser is running
    label,            \* control.innerHTML
    controlDisabled,  \* #control disabled
    stopDisabled,     \* #stop disabled
    sent,             \* commands transmitted on the socket, in order
    received,         \* message.data of every inbound message, in order
    handed,           \* class names _blink_line was called with, in order
    err,              \* the exception the last handler ended with, or "none"
    state             \* the session state the completed commands lead to

vars == <<queue, wsState, timmer, timers, label, controlDisabled,
          stopDisabled, sent, received, handed, err, state>>

\* The session lifecycle: start leads from Idle or Paused to Running, pause
\* from Running to Paused, stop from Running or Paused to Stopped; a command
\* that ended with an exception, or has no transition, leaves the state.
SessionAfter(s, command, outcome) ==
    CASE outcome # "none" -> s
      [] command = "start" /\ s \in {"Idle", "Paused"} -> "Running"
      [] command = "pause" /\ s = "Running" -> "Paused"
      [] command = "stop" /\ s \in {"Running", "Paused"} -> "Stopped"
      [] OTHER -> s

\* JSON.parse(message.data): a value, or a SyntaxError.
JSONparse(data) ==
    IF data = EmptyObject
    THEN [ok |-> TRUE, value |-> [classname |-> Undefined]]
    ELSE IF /\ Len(data) = 5
            /\ data[1] = "{" /\ data[2] = "classname" /\ data[3] = ":"
            /\ data[5] = "}"
         THEN [ok |-> TRUE, value |-> [classname |-> data[4]]]
         ELSE [ok |-> FALSE, value |-> [classname |-> Undefined]]

\* ws.onmessage with the parse failure swallowed: whatever the parse left
\* is pushed.
onmessagePushAlways(q, data) == Append(q, JSONparse(data).value)

\* The queue after ws.onmessage ran on message.data: push throws nothing,
\* JSON.parse throws before push is reached.
onmessage(q, data) ==
    IF JSONparse(data).ok THEN Append(q, JSONparse(data).value) ELSE q

\* peak() taking the newest element, queue.pop(), as the page's earlier
\* script does.
peakPop(q) ==
    IF q = <<>>
    THEN [empty |-> TRUE, data |-> [classname |-> Undefined], queue |-> q]
    ELSE [empty |-> FALSE, data |-> q[Len(q)],
          queue |-> SubSeq(q, 1, Len(q) - 1)]

\* peak(): queue.shift() gives the oldest element and the shortened queue,
\* and undefined on an empty queue.
peak(q) ==
    IF q = <<>>
    THEN [empty |-> TRUE, data |-> [classname |-> Undefined], queue |-> q]
    ELSE [empty |-> FALSE, data |-> Head(q), queue |-> Tail(q)]

\* _blink_line(classname): getElementsByClassName(classname)[0] is undefined
\* when the page has no such element, and target.style then throws.
_blink_line(classname) ==
    IF classname \in ClassNames THEN "none" ELSE "TypeError"

\* ws.send(message): throws while CONNECTING, transmits while OPEN, and
\* discards the data without an exception once the socket is closed.
send(message) ==
    CASE wsState = "CONNECTING" -> [err |-> "InvalidStateError", sent |-> sent]
      [] wsState = "OPEN" -> [err |-> "none", sent |-> Append(sent, message)]
      [] OTHER -> [err |-> "none", sent |-> sent]

\* setInterval: a handle greater than zero that no live timer has (the
\* least one; do_start stores it in this.timmer at once, so a handle freed
\* by clearInterval can be handed out again).
setInterval ==
    CHOOSE id \in 1..(MaxTimers + 1) :
        /\ id \notin timers
        /\ \A other \in 1..(MaxTimers + 1) : other \notin timers => id <= other

\* clearInterval(handle): the timers left running.
clearInterval(handle) == timers \ {handle}

Init ==
    /\ queue = <<>>
    /\ wsState = "CONNECTING"
    /\ timmer = 0
    /\ timers = {}
    /\ label = "START"
    /\ controlDisabled = FALSE
    /\ stopDisabled = TRUE
    /\ sent = <<>>
    /\ received = <<>>
    /\ handed = <<>>
    /\ err = "none"
    /\ state = "Idle"

\* The socket opens (readyState 1).
WsOpen ==
    /\ wsState = "CONNECTING"
    /\ wsState' = "OPEN"
    /\ UNCHANGED <<queue, timmer, timers, label, controlDisabled, stopDisabled,
                   sent, received, handed, err, state>>

\* The connection attempt fails (readyState 3, never open).
WsFail ==
    /\ wsState = "CONNECTING"
    /\ wsState' = "FAILED"
    /\ UNCHANGED <<queue, timmer, timers, label, controlDisabled, stopDisabled,
                   sent, received, handed, err, state>>

\* The open connection is closed (readyState 3).
WsClose ==
    /\ wsState = "OPEN"
    /\ wsState' = "CLOSED"
    /\ UNCHANGED <<queue, timmer, timers, label, controlDisabled, stopDisabled,
                   sent, received, handed, err, state>>

\* this.ws.onmessage
MessageArrives ==
    \E data \in Payloads :
        /\ wsState = "OPEN"
        /\ Len(received) < MaxMsgs
        /\ received' = Append(received, data)
        /\ queue' = onmessage(queue, data)
        /\ err' = IF JSONparse(data).ok THEN "none" ELSE "SyntaxError"
        /\ UNCHANGED <<wsState, timmer, timers, label, controlDisabled,
                       stopDisabled, sent, handed, state>>

\* render, the callback of the interval timer.
render ==
    /\ queue' = peak(queue).queue
    /\ IF peak(queue).empty
       THEN /\ err' = "TypeError"
            /\ handed' = handed
       ELSE /\ handed' = Append(handed, peak(queue).data.classname)
            /\ err' = _blink_line(peak(queue).data.classname)

\* One firing of a running interval timer.
Tick ==
    \E t \in timers :
        /\ render
        /\ UNCHANGED <<wsState, timmer, timers, label, controlDisabled,
                       stopDisabled, sent, received, state>>

\* Keeps sent and timers within the bounds of the model.
Bounded ==
    /\ wsState = "OPEN" => Len(sent) < MaxSent
    /\ Cardinality(timers) < MaxTimers

do_start ==
    /\ Bounded
    /\ stopDisabled' = FALSE
    /\ sent' = send("start").sent
    /\ err' = send("start").err
    /\ IF send("start").err = "none"
       THEN /\ timmer' = setInterval
            /\ timers' = timers \cup {setInterval}
       ELSE UNCHANGED <<timmer, timers>>
    /\ state' = SessionAfter(state, "start", send("start").err)
    /\ UNCHANGED <<queue, wsState, controlDisabled, received, handed>>

\* do_pause that also empties the queue.
do_pauseDropsQueue ==
    /\ timers' = clearInterval(timmer)
    /\ queue' = <<>>
    /\ err' = "none"
    /\ state' = SessionAfter(state, "pause", "none")
    /\ UNCHANGED <<wsState, timmer, controlDisabled, stopDisabled,
                   sent, received, handed>>

\* do_pause that also tells the backend, with a "pause" command.
do_pauseSendsPause ==
    /\ timers' = clearInterval(timmer)
    /\ sent' = send("pause").sent
    /\ err' = send("pause").err
    /\ state' = SessionAfter(state, "pause", send("pause").err)
    /\ UNCHANGED <<queue, wsState, timmer, controlDisabled, stopDisabled,
                   received, handed>>

do_pause ==
    /\ timers' = clearInterval(timmer)
    /\ err' = "none"
    /\ state' = SessionAfter(state, "pause", "none")
    /\ UNCHANGED <<queue, wsState, timmer, controlDisabled, stopDisabled,
                   sent, received, handed>>

\* do_stop that also resets the queue.
do_stopClearsQueue ==
    /\ wsState = "OPEN" => Len(sent) < MaxSent
    /\ timers' = clearInterval(timmer)
    /\ queue' = <<>>
    /\ sent' = send("stop").sent
    /\ err' = send("stop").err
    /\ IF send("stop").err = "none"
       THEN /\ controlDisabled' = TRUE
            /\ stopDisabled' = TRUE
       ELSE UNCHANGED <<controlDisabled, stopDisabled>>
    /\ state' = SessionAfter(state, "stop", send("stop").err)
    /\ UNCHANGED <<wsState, timmer, received, handed>>

do_stop ==
    /\ wsState = "OPEN" => Len(sent) < MaxSent
    /\ timers' = clearInterval(timmer)
    /\ sent' = send("stop").sent
    /\ err' = send("stop").err
    /\ IF send("stop").err = "none"
       THEN /\ controlDisabled' = TRUE
            /\ stopDisabled' = TRUE
       ELSE UNCHANGED <<controlDisabled, stopDisabled>>
    /\ state' = SessionAfter(state, "stop", send("stop").err)
    /\ UNCHANGED <<queue, wsState, timmer, received, handed>>

\* control.onclick
ClickControl ==
    /\ ~controlDisabled
    /\ \/ /\ label = "START"
          /\ label' = "PAUSE"
          /\ do_start
       \/ /\ label # "START"
          /\ label' = "START"
          /\ do_pause

\* The click listener of #stop.
ClickStop ==
    /\ ~stopDisabled
    /\ do_stop
    /\ UNCHANGED label

\* The methods called on window.ctrl.
DoStart == do_start /\ UNCHANGED label
DoPause == do_pause /\ UNCHANGED label
DoStop == do_stop /\ UNCHANGED label

Next ==
    \/ WsOpen
    \/ WsFail
    \/ WsClose
    \/ MessageArrives
    \/ Tick
    \/ ClickControl
    \/ ClickStop
    \/ DoStart
    \/ DoPause
    \/ DoStop

Spec == Init /\ [][Next]_vars

\* A session driven through the control button alone and never stopped. A
\* live interval timer keeps firing.
NextLive ==
    \/ WsOpen
    \/ WsFail
    \/ WsClose
    \/ MessageArrives
    \/ Tick
    \/ ClickControl

FairSpec == Init /\ [][NextLive]_vars /\ WF_vars(Tick)

\* The same session with no assumption on the timer.
ClickSpec == Init /\ [][NextLive]_vars

(***************************************************************************)
(* The page's earlier script (unnamed/part_000), on the same state.        *)
(***************************************************************************)
\* peak(): queue.pop() gives the newest element.
peak_000(q) ==
    IF q = <<>>
    THEN [empty |-> TRUE, data |-> [classname |-> Undefined], queue |-> q]
    ELSE [empty |-> FALSE, data |-> q[Len(q)],
          queue |-> SubSeq(q, 1, Len(q) - 1)]

\* do_start(): send('start'), then setInterval; there is no stop button.
do_start_000 ==
    /\ sent' = send("start").sent
    /\ err' = send("start").err
    /\ IF send("start").err = "none"
       THEN /\ timmer' = setInterval
            /\ timers' = timers \cup {setInterval}
       ELSE UNCHANGED <<timmer, timers>>
    /\ UNCHANGED <<queue, wsState, controlDisabled, stopDisabled, received,
                   handed>>

\* do_stop(): clearInterval(this.timmer) and nothing else.
do_stop_000 ==
    /\ timers' = clearInterval(timmer)
    /\ err' = "none"
    /\ UNCHANGED <<queue, wsState, timmer, controlDisabled, stopDisabled,
                   sent, received, handed>>

\* The class names render takes off a queue, tick after tick, when nothing
\* arrives in between: control.js, and the earlier script.
RECURSIVE Presented(_)
Presented(q) ==
    IF peak(q).empty THEN <<>>
    ELSE <<peak(q).data.classname>> \o Presented(peak(q).queue)

RECURSIVE Presented_000(_)
Presented_000(q) ==
    IF peak_000(q).empty THEN <<>>
    ELSE <<peak_000(q).data.classname>> \o Presented_000(peak_000(q).queue)

(***************************************************************************)
(* Vocabulary of the properties.                                           *)
(***************************************************************************)
IsPrefix(s, t) == Len(s) <= Len(t) /\ SubSeq(t, 1, Len(s)) = s

\* Class names of the values the inbound messages parsed to, in arrival order.
Parsed == SelectSeq(received, LAMBDA d : JSONparse(d).ok)
Arrived == [i \in 1..Len(Parsed) |-> JSONparse(Parsed[i]).value.classname]

\* Class names of the queue, oldest first.
Queued == [i \in 1..Len(queue) |-> queue[i].classname]

\* Events that name an element of the page, as received and as blinked.
WellFormed == SelectSeq(Arrived, LAMBDA c : c \in ClassNames)
Blinked == SelectSeq(handed, LAMBDA c : _blink_line(c) = "none")

Count(s, x) == Len(SelectSeq(s, LAMBDA y : y = x))

\* The state fields a lifecycle operation can touch.
session == <<queue, timmer, timers, label, controlDisabled, stopDisabled,
             sent, handed>>

PauseOrStop ==
    DoPause \/ DoStop \/ ClickStop \/ (ClickControl /\ label # "START")
StartOrStop ==
    DoStart \/ DoStop \/ ClickStop \/ (ClickControl /\ label = "START")

(***************************************************************************)
(* C1: whatever the interleaving of arrivals and ticks, the class names    *)
(* handed to _blink_line are a prefix of the class names in arrival order. *)
(***************************************************************************)
C1_PresentedInArrivalOrder == IsPrefix(handed, Arrived)

\* Two different events handed over while a third is still queued.
C1_Witness == Len(handed) = 2 /\ handed[1] # handed[2] /\ Len(queue) = 1

(***************************************************************************)
(* C2: once pause or stop has run no interval timer is left, so no tick    *)
(* can take an element off the queue or blink a line.                      *)
(***************************************************************************)
C2_NoTickAfterPauseOrStop == [][PauseOrStop => timers' = {}]_vars

(***************************************************************************)
(* C3: a stop invoked when a stop has already completed (both buttons      *)
(* disabled) sends nothing more and changes nothing.                       *)
(***************************************************************************)
C3_StopIdempotent ==
    [][((DoStop \/ ClickStop) /\ controlDisabled /\ stopDisabled)
          => UNCHANGED session]_vars

(***************************************************************************)
(* C4: after a completed stop, start, pause and resume change nothing.     *)
(***************************************************************************)
C4_StoppedIsTerminal ==
    [][(controlDisabled /\ (DoStart \/ DoPause \/ ClickControl))
          => UNCHANGED session]_vars

(***************************************************************************)
(* C5: the START click that resumes a paused session ("start" already     *)
(* sent, no timer running) starts a timer and sends nothing.               *)
(***************************************************************************)
C5_ResumeSendsNothing ==
    [][(ClickControl /\ label = "START" /\ Count(sent, "start") >= 1
            /\ timers = {})
          => (sent' = sent /\ timers' # {})]_vars

(***************************************************************************)
(* C6: a tick on an empty queue throws nothing, blinks nothing and leaves  *)
(* the timer running.                                                      *)
(***************************************************************************)
C6_EmptyTickIsNoop ==
    [][(Tick /\ queue = <<>>)
          => (err' = "none" /\ queue' = queue /\ handed' = handed
              /\ timers' = timers)]_vars

(***************************************************************************)
(* C7: at most one interval timer is running in every reachable state.     *)
(***************************************************************************)
C7_AtMostOneTimer == Cardinality(timers) <= 1

(***************************************************************************)
(* C8: in a session that is not stopped and whose timer ends up running    *)
(* for good, every event that names an element of the page is eventually   *)
(* blinked, in arrival order, pauses in between notwithstanding.           *)
(***************************************************************************)
C8_NoLossDuringPause ==
    (<>[](timers # {})) =>
        \A k \in 1..MaxMsgs :
            [](Len(WellFormed) >= k =>
                 <>(Len(Blinked) >= k
                    /\ SubSeq(Blinked, 1, k) = SubSeq(WellFormed, 1, k)))

\* Resumed after a pause ("start" sent twice, the timer of the second one
\* running), with every event received blinked.
C8_Witness ==
    /\ sent = <<"start", "start">>
    /\ timers = {timmer}
    /\ label = "PAUSE"
    /\ Len(WellFormed) = MaxMsgs
    /\ Blinked = WellFormed
    /\ queue = <<>>

(***************************************************************************)
(* C9: a message that does not parse changes neither the queue, nor the    *)
(* session, nor the socket; the queue holds the parsed messages not yet    *)
(* handed over, in arrival order.                                          *)
(***************************************************************************)
C9_MalformedDropped ==
    /\ [][\A d \in Payloads :
            (received' = Append(received, d) /\ ~JSONparse(d).ok)
                => (UNCHANGED session /\ wsState' = wsState)]_vars
    /\ [](Queued = SubSeq(Arrived, Len(handed) + 1, Len(Arrived)))

\* A truncated message between two events: the two events are the queue.
C9_Witness ==
    /\ received = <<EventPayload("a"), Truncated, EventPayload("b")>>
    /\ queue = <<[classname |-> "a"], [classname |-> "b"]>>
    /\ wsState = "OPEN"

(***************************************************************************)
(* C10: a start or stop invoked while the socket is not open ends in an    *)
(* exception and transmits nothing.                                        *)
(***************************************************************************)
C10_SendOnClosedSurfaced ==
    [][(StartOrStop /\ wsState # "OPEN")
          => (err' # "none" /\ sent' = sent)]_vars

(***************************************************************************)
(* C11: once the connection attempt has failed no session can come about:  *)
(* no step starts a timer, sends a command, enables the stop button or     *)
(* leaves Idle.                                                            *)
(***************************************************************************)
C11_FailedConnectionIsFatal ==
    [][wsState = "FAILED"
          => (timers' = {} /\ sent' = sent /\ state' = "Idle"
              /\ (stopDisabled => stopDisabled'))]_vars

(***************************************************************************)
(* C12: the stop button is enabled only while the session is Running or    *)
(* Paused, and both buttons are disabled once it is Stopped.               *)
(***************************************************************************)
C12_ControlsFollowLifecycle ==
    /\ ~stopDisabled => state \in {"Running", "Paused"}
    /\ state = "Stopped" => (controlDisabled /\ stopDisabled)

(***************************************************************************)
(* C13: an interval timer is running exactly when the session is Running.  *)
(***************************************************************************)
C13_TimerIffRunning == (timers # {}) <=> (state = "Running")

(***************************************************************************)
(* C14: a stop in Running or Paused leaves no timer running, sends "stop", *)
(* disables both buttons and leads to Stopped; in Stopped nothing is       *)
(* handed to _blink_line any more and no command restarts the session.     *)
(***************************************************************************)
C14_StopEndsSession ==
    [][/\ ((DoStop \/ ClickStop) /\ state \in {"Running", "Paused"})
             => (/\ timers' = {}
                 /\ sent' = Append(sent, "stop")
                 /\ controlDisabled' /\ stopDisabled'
                 /\ state' = "Stopped")
       /\ state = "Stopped"
             => (handed' = handed /\ timers' = {} /\ state' = "Stopped")]_vars

(***************************************************************************)
(* C15: a start in Idle that completes has sent "start", runs a timer and  *)
(* has enabled the stop button; one that ends with an exception has done   *)
(* none of the three.                                                      *)
(***************************************************************************)
C15_StartFromIdle ==
    [][((DoStart \/ (ClickControl /\ label = "START")) /\ state = "Idle")
          => IF err' = "none"
             THEN sent' = Append(sent, "start") /\ timers' # {}
                  /\ ~stopDisabled'
             ELSE sent' = sent /\ timers' = {} /\ stopDisabled']_vars

Reverse(s) == [i \in 1..Len(s) |-> s[Len(s) + 1 - i]]

\* A burst in the queue is presented by the earlier script in the reverse
\* of the order control.js presents it in; up to one queued event, alike.
OppositeOrder ==
    /\ Presented_000(queue) = Reverse(Presented(queue))
    /\ Len(queue) <= 1 => Presented_000(queue) = Presented(queue)

(***************************************************************************)
(* C17, as stated: the two scripts differ in the removal end of the queue  *)
(* only, so every do_start and do_stop of control.js is a do_start and     *)
(* do_stop of the earlier script, and they present a burst in opposite     *)
(* orders.                                                                 *)
(***************************************************************************)
C17_DifferOnlyInRemovalEnd ==
    /\ [][(DoStart => do_start_000) /\ (DoStop => do_stop_000)]_vars
    /\ []OppositeOrder

(***************************************************************************)
(* C17, amended: the scripts differ in the removal end and in the          *)
(* lifecycle (control.js's do_start also enables the stop button, and what *)
(* the earlier script calls do_stop is control.js's do_pause); they        *)
(* present a burst in opposite orders, and alike with up to one event      *)
(* queued.                                                                 *)
(***************************************************************************)
C17_OppositeOrderUnderLoad ==
    /\ [][/\ (DoStart /\ stopDisabled' = stopDisabled) => do_start_000
          /\ DoPause => do_stop_000]_vars
    /\ []OppositeOrder

\* A burst of different events queued while a timer is running.
C17_Witness ==
    /\ Len(queue) >= 2
    /\ queue[1] # queue[Len(queue)]
    /\ timers # {}

(***************************************************************************)
(* C18: the class names that arrived are those handed over followed by     *)
(* those queued; an arrival appends at most one element at the tail, any   *)
(* other change of the queue takes its head off and hands it over, and no  *)
(* lifecycle command changes the queue.                                    *)
(***************************************************************************)
C18_Conservation ==
    /\ [](Arrived = handed \o Queued)
    /\ [][/\ received' # received
                => (/\ handed' = handed
                    /\ \/ queue' = queue
                       \/ /\ Len(queue') = Len(queue) + 1
                          /\ SubSeq(queue', 1, Len(queue)) = queue)
          /\ (received' = received /\ queue' # queue)
                => (/\ queue' = Tail(queue)
                    /\ handed' = Append(handed, Head(queue).classname))
          /\ (DoStart \/ DoPause \/ DoStop \/ ClickControl \/ ClickStop)
                => queue' = queue]_vars

\* After a stop: one event handed over, one queued, one message dropped.
C18_Witness ==
    /\ Len(received) = 3
    /\ Len(handed) = 1
    /\ Len(queue) = 1
    /\ state = "Stopped"

(***************************************************************************)
(* C19: with clicks on the control button alone and no stop, the label is  *)
(* PAUSE exactly when an interval timer is running.                        *)
(***************************************************************************)
C19_LabelMatchesTimer == (label = "PAUSE") <=> (timers # {})

(***************************************************************************)
(* C20: stop leaves the socket and the queue as they are, and once a stop  *)
(* has completed the queue never gets shorter and nothing is handed to     *)
(* _blink_line.                                                            *)
(***************************************************************************)
C20_StopFreezesBuffer ==
    [][/\ (DoStop \/ ClickStop) => (wsState' = wsState /\ queue' = queue)
       /\ controlDisabled
             => (Len(queue') >= Len(queue) /\ handed' = handed)]_vars

====
